---- MODULE Spec2Model ----
(***************************************************************************)
(* Vehicle App API (backend/main.py): the single-worker background write   *)
(* queue (_executor, _submit_bg, _bg_create_fuel, _bg_update_fuel), the    *)
(* synchronous fuel endpoints that write on the request thread, and the    *)
(* SQLite store they share.                                                *)
(*                                                                         *)
(* A SQLModel Session is modelled by what it holds between calls: the      *)
(* pending new object (pend), the set of modified attributes of a loaded   *)
(* object (dirty), and whether its connection holds the store's write      *)
(* lock.  Session.commit() flushes what is pending or dirty (taking the    *)
(* write lock, or raising 'database is locked' when another connection     *)
(* holds it) and then commits; with nothing to flush it touches no         *)
(* connection and succeeds.  Session.rollback() expunges pending objects   *)
(* and expires loaded ones, so nothing is left to flush.                   *)
(***************************************************************************)
EXTENDS Integers, Sequences, FiniteSets, TLC

\* ---------------------------------------------------------------- bounds
MaxJobs == 2        \* jobs create_fuel_entry hands to the executor (Spec)
MaxDirect == 1      \* job functions handed to _submit_bg directly (SpecBg)
MaxCalls == 22      \* callables handed to _submit_bg (SpecLog)
MaxOk == 1          \* of which at most this many return normally (SpecLog)
MaxId == 2          \* largest fuel entry id the store hands out (SpecAuth)
MaxEntries == 3     \* fuel entries of the vehicle reported on (SpecReport)
MaxRows == 2        \* rows of each table when a request arrives (SpecApi)
MaxReads == 2       \* times the same report is asked for between writes (SpecReread)

\* ------------------------------------------------------ program constants
TwoWorkers == 1 + 1
max_workers == 1    \* ThreadPoolExecutor(max_workers=1)
Attempts == 3       \* for attempt in range(3)
LastRetry == 2      \* ... and attempt < 2
LogCapacity == 20   \* if len(_recent_bg_errors) > 20

\* ------------------------------------------------------------ input sets
Users == {1, 2}                 \* the users who send requests
Threads == {1, 2}               \* request-handling threads
Callers == {1}                  \* the thread that calls _submit_bg directly
Workers == 1..max_workers       \* threads of _executor
VehicleIds == {1, 2, 3}         \* 1 is user 1's, 2 another user's, 3 no vehicle
Odometers == {1, 2}
NewOdometers == {2}             \* the odometer of a new entry
Attrs == {"odometer"}           \* the attributes of a fuel entry the model follows

VARIABLES
    vehicle,    \* table vehicle: id -> user_id (0: no such row)
    fuel,       \* table fuelentry: set of rows
    lock,       \* connections holding the store's write lock
    workq,      \* _executor's work queue: job ids, oldest first
    jobs,       \* every future _executor.submit returned, in submission order
    wk,         \* each executor thread: what it is running and where
    pending,    \* _pending_futures
    errors,     \* _recent_bg_errors
    errHist,    \* history: every error ever recorded, in order of recording
    rq,         \* each request thread: the request it is handling and where
    reply,      \* the last request answered in one step, and its answer
    service,    \* table serviceevent: set of rows
    seen        \* history: the report answers given since table fuelentry last changed

vars == <<vehicle, fuel, lock, workq, jobs, wk, pending, errors, errHist, rq, reply,
          service, seen>>

\* ----------------------------------------------------------------- store
HasRow(id) == \E r \in fuel : r.id = id
Row(id) == CHOOSE r \in fuel : r.id = id
MaxOf(S) == CHOOSE x \in S : \A y \in S : y <= x
\* INTEGER PRIMARY KEY without AUTOINCREMENT: one more than the largest id
NewId == IF fuel = {} THEN 1 ELSE MaxOf({r.id : r \in fuel}) + 1

\* vehicle = session.get(Vehicle, vid); not vehicle or vehicle.user_id != user
Owns(u, vid) == vid \in DOMAIN vehicle /\ vehicle[vid] # 0 /\ vehicle[vid] = u

\* a row as the store holds it
NewRow(id, vid, odo) == [id |-> id, vehicle_id |-> vid, odometer |-> odo]

\* the attributes a flush writes: those set to a value other than the loaded one
DirtyOf(r, odo) == {a \in Attrs : a = "odometer" /\ odo # r.odometer}

\* UPDATE fuelentry SET <dirty attributes> WHERE id = ...
Written(r, dirty, odo) ==
    [r EXCEPT !.odometer = IF "odometer" \in dirty THEN odo ELSE @]

\* ------------------------------------------------------------- _submit_bg
Job(func, user, vid, fid, odo, raises) ==
    [func |-> func, user |-> user, vid |-> vid, fid |-> fid, odo |-> odo,
     raises |-> raises,
     st |-> "queued",       \* the future: queued, running, finished
     exc |-> FALSE,         \* fut.exception() is not None
     tries |-> <<>>,        \* history: outcome of each commit attempt
     sleeps |-> <<>>,       \* history: each backoff, in units of 0.5 s
     out |-> "none",        \* history: how the job function ended
     ins |-> 0,             \* history: rows this job inserted
     tracked |-> FALSE,     \* appended to _pending_futures
     cb |-> "none",         \* _on_done: none, registered, ran
     resp |-> "none"]       \* what the submitting request was answered

JobIds == 1..Len(jobs)

\* _pending_futures.remove(fut), ValueError passed over
RemoveHead(s, x) == IF s = <<>> THEN <<>> ELSE Tail(s)
RECURSIVE RemoveFirst(_, _)
RemoveFirst(s, x) ==
    IF s = <<>> THEN <<>>
    ELSE IF Head(s) = x THEN Tail(s)
    ELSE <<Head(s)>> \o RemoveFirst(Tail(s), x)

\* _recent_bg_errors.append(...); if len(...) > 20: pop(0)
RecordErrorDropsNewest(log, e) ==
    IF Len(log) >= LogCapacity THEN log ELSE Append(log, e)
RecordError(log, e) ==
    LET l == Append(log, e)
    IN IF Len(l) > LogCapacity THEN Tail(l) ELSE l

\* debug_queue, debug_bg_errors
debug_queue == Len(pending)
debug_bg_errors == errors

IdleRq == [pc |-> "idle", op |-> "none", user |-> 0, job |-> 0, fid |-> 0,
           odo |-> 0, attempt |-> 0, dirty |-> {},
           ovl |-> FALSE]   \* history: another update of the same row overlapped
IdleWk == [pc |-> "idle", job |-> 0, attempt |-> 0, pend |-> FALSE, dirty |-> {}]
NoReply == [req |-> <<>>, resp |-> [op |-> "none", status |-> 0]]

Init ==
    /\ vehicle = (1 :> 1) @@ (2 :> 3) @@ (3 :> 0)
    /\ fuel = {NewRow(1, 1, 1)}
    /\ lock = {}
    /\ workq = <<>>
    /\ jobs = <<>>
    /\ wk = [k \in Workers |-> IdleWk]
    /\ pending = <<>>
    /\ errors = <<>>
    /\ errHist = <<>>
    /\ rq = [t \in Threads |-> IdleRq]
    /\ reply = NoReply
    /\ service = {}
    /\ seen = {}

\* ------------------------------------------------- the executor's threads
\* ThreadPoolExecutor's work queue: the oldest item first
QueueGetPeek(q) == <<Head(q), q>>
QueueGetLast(q) == <<q[Len(q)], SubSeq(q, 1, Len(q) - 1)>>
QueueGet(q) == <<Head(q), Tail(q)>>

\* a worker thread with nothing to run takes the next work item
WorkerTake(k) ==
    /\ wk[k].pc = "idle"
    /\ workq # <<>>
    /\ LET j == QueueGet(workq)[1] IN
        /\ workq' = QueueGet(workq)[2]
        /\ jobs' = [jobs EXCEPT ![j].st = "running"]
        /\ wk' = [wk EXCEPT ![k] = [IdleWk EXCEPT !.pc = "run", !.job = j]]
    /\ UNCHANGED <<service, seen, reply, vehicle, fuel, lock, pending, errors, errHist, rq>>

\* _bg_create_fuel: vehicle = s.get(Vehicle, payload.get('vehicle_id'))
BgCreateChecksVehicleOnly(j) == jobs[j].vid \in DOMAIN vehicle /\ vehicle[jobs[j].vid] # 0
BgCreateOwner(j) == Owns(jobs[j].user, jobs[j].vid)

\* _bg_create_fuel up to s.add(db_entry): return when the vehicle is not the
\* user's, else the new entry is pending in the session
BgCreateStart(k) ==
    /\ wk[k].pc = "run"
    /\ jobs[wk[k].job].func = "create"
    /\ LET j == wk[k].job IN
        IF BgCreateOwner(j)
        THEN /\ wk' = [wk EXCEPT ![k].pc = "commit", ![k].pend = TRUE]
             /\ UNCHANGED jobs
        ELSE /\ wk' = [wk EXCEPT ![k].pc = "finish"]
             /\ jobs' = [jobs EXCEPT ![j].out = "dropped"]
    /\ UNCHANGED <<service, seen, reply, vehicle, fuel, lock, workq, pending, errors, errHist, rq>>

\* _bg_update_fuel: db_entry = s.get(FuelEntry, fuel_id), then its vehicle
BgUpdateOwner(j) ==
    /\ HasRow(jobs[j].fid)
    /\ Owns(jobs[j].user, Row(jobs[j].fid).vehicle_id)

\* _bg_update_fuel up to the retry loop: return when the entry is missing or
\* its vehicle is not the user's, else set the five attributes
BgUpdateStart(k) ==
    /\ wk[k].pc = "run"
    /\ jobs[wk[k].job].func = "update"
    /\ LET j == wk[k].job IN
        IF BgUpdateOwner(j)
        THEN /\ wk' = [wk EXCEPT ![k].pc = "commit",
                          ![k].dirty = DirtyOf(Row(jobs[j].fid), jobs[j].odo)]
             /\ UNCHANGED jobs
        ELSE /\ wk' = [wk EXCEPT ![k].pc = "finish"]
             /\ jobs' = [jobs EXCEPT ![j].out = "dropped"]
    /\ UNCHANGED <<service, seen, reply, vehicle, fuel, lock, workq, pending, errors, errHist, rq>>

\* if 'database is locked' in str(e).lower() and attempt < 2
RetryAnyError(msg, attempt) == attempt < LastRetry
Retryable(msg, attempt) == msg = "locked" /\ attempt < LastRetry

\* s.rollback(): pending objects are expunged, loaded ones expired
Rollback(w) == [w EXCEPT !.pend = FALSE, !.dirty = {}]

\* time.sleep(0.5 * (attempt + 1)), in units of 0.5 s
Backoff(attempt) == attempt + 1

\* the except branch of the retry loop: roll back, sleep and go round again, or
\* raise into the function's own except Exception, which prints the traceback
BgCommitRaised(k, msg) ==
    LET j == wk[k].job
        a == wk[k].attempt
    IN IF Retryable(msg, a)
       THEN /\ wk' = [wk EXCEPT ![k] = [Rollback(@) EXCEPT !.attempt = a + 1]]
            /\ jobs' = [jobs EXCEPT ![j].tries = Append(@, msg),
                                    ![j].sleeps = Append(@, Backoff(a))]
       ELSE /\ wk' = [wk EXCEPT ![k].pc = "finish"]
            /\ jobs' = [jobs EXCEPT ![j].tries = Append(@, msg), ![j].out = "failed"]

NothingToFlush(w) == ~w.pend /\ w.dirty = {}

\* s.commit() with nothing pending or dirty: no statement is sent, it succeeds
BgCommitEmpty(k) ==
    /\ wk[k].pc = "commit"
    /\ NothingToFlush(wk[k])
    /\ wk' = [wk EXCEPT ![k].pc = "finish"]
    /\ jobs' = [jobs EXCEPT ![wk[k].job].tries = Append(@, "ok"),
                            ![wk[k].job].out = "committed"]
    /\ UNCHANGED <<service, seen, reply, vehicle, fuel, lock, workq, pending, errors, errHist, rq>>

\* s.commit(): the flush sends the INSERT/UPDATE and takes the write lock
BgCommitFlush(k) ==
    /\ wk[k].pc = "commit"
    /\ ~NothingToFlush(wk[k])
    /\ lock = {}
    /\ wk[k].pend \/ HasRow(jobs[wk[k].job].fid)
    /\ lock' = {<<"w", k>>}
    /\ wk' = [wk EXCEPT ![k].pc = "flushed"]
    /\ UNCHANGED <<service, seen, reply, vehicle, fuel, workq, jobs, pending, errors, errHist, rq>>

\* s.commit(): another connection holds the write lock past the busy timeout
BgCommitLocked(k) ==
    /\ wk[k].pc = "commit"
    /\ ~NothingToFlush(wk[k])
    /\ lock # {}
    /\ BgCommitRaised(k, "locked")
    /\ UNCHANGED <<service, seen, reply, vehicle, fuel, lock, workq, pending, errors, errHist, rq>>

\* s.commit(): the statement fails for another reason (a value SQLite cannot
\* store, an I/O error, the row to update gone)
BgCommitError(k) ==
    /\ wk[k].pc = "commit"
    /\ ~NothingToFlush(wk[k])
    /\ BgCommitRaised(k, "error")
    /\ UNCHANGED <<service, seen, reply, vehicle, fuel, lock, workq, pending, errors, errHist, rq>>

\* s.commit(): COMMIT makes the flushed statement durable and frees the lock
BgCommitDone(k) ==
    /\ wk[k].pc = "flushed"
    /\ LET j == wk[k].job IN
        /\ fuel' = IF wk[k].pend
                   THEN fuel \cup {NewRow(NewId, jobs[j].vid, jobs[j].odo)}
                   ELSE IF HasRow(jobs[j].fid)
                   THEN (fuel \ {Row(jobs[j].fid)})
                        \cup {Written(Row(jobs[j].fid), wk[k].dirty, jobs[j].odo)}
                   ELSE fuel
        /\ jobs' = [jobs EXCEPT ![j].tries = Append(@, "ok"),
                                ![j].out = "committed",
                                ![j].ins = IF wk[k].pend THEN @ + 1 ELSE @]
    /\ lock' = lock \ {<<"w", k>>}
    /\ wk' = [wk EXCEPT ![k].pc = "finish", ![k].pend = FALSE, ![k].dirty = {}]
    /\ UNCHANGED <<service, seen, reply, vehicle, workq, pending, errors, errHist, rq>>

\* a callable handed to _submit_bg that returns or raises
CallRun(k) ==
    /\ wk[k].pc = "run"
    /\ jobs[wk[k].job].func = "call"
    /\ wk' = [wk EXCEPT ![k].pc = "finish"]
    /\ jobs' = [jobs EXCEPT ![wk[k].job].out =
                    IF jobs[wk[k].job].raises THEN "raised" ELSE "returned"]
    /\ UNCHANGED <<service, seen, reply, vehicle, fuel, lock, workq, pending, errors, errHist, rq>>

\* what reaches the future: _bg_create_fuel and _bg_update_fuel end in
\* except Exception: traceback.print_exc(), so they always return
FutureExceptionOnDrop(j) == jobs[j].out \in {"raised", "dropped"}
FutureException(j) == jobs[j].out = "raised"

\* _on_done(fut)
OnDone(j) ==
    /\ pending' = RemoveFirst(pending, j)
    /\ errors' = IF jobs[j].exc THEN RecordError(errors, j) ELSE errors
    /\ errHist' = IF jobs[j].exc THEN Append(errHist, j) ELSE errHist

\* the work item ends: future.set_result / set_exception
FutureSet(k) ==
    /\ wk[k].pc = "finish"
    /\ jobs' = [jobs EXCEPT ![wk[k].job].st = "finished",
                            ![wk[k].job].exc = FutureException(wk[k].job)]
    /\ wk' = [wk EXCEPT ![k].pc = "callbacks"]
    /\ UNCHANGED <<service, seen, reply, vehicle, fuel, lock, workq, pending, errors, errHist, rq>>

\* ... then the callbacks registered by then run on the worker thread
InvokeCallbacks(k) ==
    /\ wk[k].pc = "callbacks"
    /\ LET j == wk[k].job IN
        IF jobs[j].cb = "registered"
        THEN /\ OnDone(j)
             /\ jobs' = [jobs EXCEPT ![j].cb = "ran"]
        ELSE UNCHANGED <<pending, errors, errHist, jobs>>
    /\ wk' = [wk EXCEPT ![k] = IdleWk]
    /\ UNCHANGED <<service, seen, reply, vehicle, fuel, lock, workq, rq>>

\* ------------------------------------------------------ _submit_bg, cont.
\* future = _executor.submit(func, *args, **kwargs)
ExecutorSubmit(t, op, job) ==
    /\ jobs' = Append(jobs, job)
    /\ workq' = Append(workq, Len(jobs) + 1)
    /\ rq' = [rq EXCEPT ![t] = [IdleRq EXCEPT !.pc = "track", !.op = op,
                                              !.user = job.user, !.job = Len(jobs) + 1]]

\* with _pending_lock: _pending_futures.append(future)
SubmitTrack(t) ==
    /\ rq[t].pc = "track"
    /\ pending' = Append(pending, rq[t].job)
    /\ jobs' = [jobs EXCEPT ![rq[t].job].tracked = TRUE]
    /\ rq' = [rq EXCEPT ![t].pc = "addcb"]
    /\ UNCHANGED <<service, seen, reply, vehicle, fuel, lock, workq, wk, errors, errHist>>

\* future.add_done_callback(_on_done): registered, or run at once on this
\* thread when the future has already finished; _submit_bg then returns
SubmitAddCallback(t) ==
    /\ rq[t].pc = "addcb"
    /\ LET j == rq[t].job IN
        IF jobs[j].st = "finished"
        THEN /\ OnDone(j)
             /\ jobs' = [jobs EXCEPT ![j].cb = "ran"]
        ELSE /\ jobs' = [jobs EXCEPT ![j].cb = "registered"]
             /\ UNCHANGED <<pending, errors, errHist>>
    /\ rq' = [rq EXCEPT ![t] = IF rq[t].op = "create_fuel_entry"
                                THEN [@ EXCEPT !.pc = "respond"]
                                ELSE IdleRq]
    /\ UNCHANGED <<service, seen, reply, vehicle, fuel, lock, workq, wk>>

\* ------------------------------------------------------ create_fuel_entry
\* the status POST /fuel/ answers with: 403 when the vehicle is not the
\* caller's, 400 when a number does not parse, else 202
create_fuel_status(u, vid, numeric) ==
    IF ~Owns(u, vid) THEN 403 ELSE IF ~numeric THEN 400 ELSE 202

\* POST /fuel/ up to executor.submit: the job is handed to the executor only
\* when neither check raised
create_fuel_entry(t, u, vid, odo, numeric) ==
    /\ rq[t].pc = "idle"
    /\ create_fuel_status(u, vid, numeric) = 202
    /\ Len(jobs) < MaxJobs
    /\ ExecutorSubmit(t, "create_fuel_entry", Job("create", u, vid, 0, odo, FALSE))
    /\ UNCHANGED <<service, seen, reply, vehicle, fuel, lock, wk, pending, errors, errHist>>

\* return JSONResponse(status_code=202, content={"status": "queued"})
CreateResponseByOutcome(j) ==
    IF jobs[j].out \in {"failed", "dropped"} THEN "error" ELSE "queued"
CreateResponse(j) == "queued"

CreateFuelRespond(t) ==
    /\ rq[t].pc = "respond"
    /\ jobs' = [jobs EXCEPT ![rq[t].job].resp = CreateResponse(rq[t].job)]
    /\ rq' = [rq EXCEPT ![t] = IdleRq]
    /\ UNCHANGED <<service, seen, reply, vehicle, fuel, lock, workq, wk, pending, errors, errHist>>

\* ------------------------------------------------------ update_fuel_entry
UpdatesInFlight(fid) == {x \in Threads : rq[x].op = "update_fuel_entry" /\ rq[x].fid = fid}

\* the status PUT /fuel/{fuel_id} answers with before its retry loop, 0 when
\* it goes on to commit
update_fuel_status(u, fid, numeric) ==
    IF ~HasRow(fid) THEN 404
    ELSE IF ~Owns(u, Row(fid).vehicle_id) THEN 403
    ELSE IF ~numeric THEN 400 ELSE 0

\* PUT /fuel/{fuel_id} up to the retry loop: the loaded entry's attributes are set
update_fuel_entry(t, u, fid, odo, numeric) ==
    /\ rq[t].pc = "idle"
    /\ update_fuel_status(u, fid, numeric) = 0
    /\ rq' = [x \in Threads |->
                IF x = t
                THEN [IdleRq EXCEPT !.pc = "commit", !.op = "update_fuel_entry",
                                    !.user = u, !.fid = fid, !.odo = odo,
                                    !.dirty = DirtyOf(Row(fid), odo),
                                    !.ovl = UpdatesInFlight(fid) # {}]
                ELSE IF x \in UpdatesInFlight(fid)
                THEN [rq[x] EXCEPT !.ovl = TRUE]
                ELSE rq[x]]
    /\ UNCHANGED <<service, seen, reply, vehicle, fuel, lock, workq, jobs, wk, pending, errors, errHist>>

\* session.commit() with nothing dirty, session.refresh(db_entry), return 200;
\* the refresh of a row that is gone raises, which ends in the 500
UpdateCommitEmpty(t) ==
    /\ rq[t].pc = "commit"
    /\ rq[t].op = "update_fuel_entry"
    /\ rq[t].dirty = {}
    /\ rq' = [rq EXCEPT ![t] = IdleRq]
    /\ UNCHANGED <<service, seen, reply, vehicle, fuel, lock, workq, jobs, wk, pending, errors, errHist>>

\* session.commit(): the flush sends the UPDATE and takes the write lock
UpdateFlush(t) ==
    /\ rq[t].pc = "commit"
    /\ rq[t].op = "update_fuel_entry"
    /\ rq[t].dirty # {}
    /\ lock = {}
    /\ HasRow(rq[t].fid)
    /\ lock' = {<<"t", t>>}
    /\ rq' = [rq EXCEPT ![t].pc = "flushed"]
    /\ UNCHANGED <<service, seen, reply, vehicle, fuel, workq, jobs, wk, pending, errors, errHist>>

\* if 'database is locked' in msg and attempt < 2
UpdateRetryable(msg, attempt) == msg = "locked" /\ attempt < LastRetry

\* session.rollback(): the loaded entry is expired, its new values dropped
UpdateRollback(r) == [r EXCEPT !.dirty = {}]

\* the except branch of update_fuel_entry's loop: roll back and go round
\* again, or answer 500
UpdateRaised(t, msg) ==
    IF UpdateRetryable(msg, rq[t].attempt)
    THEN rq' = [rq EXCEPT ![t] = [UpdateRollback(@) EXCEPT !.attempt = @ + 1]]
    ELSE rq' = [rq EXCEPT ![t] = IdleRq]

\* session.commit(): another connection holds the write lock
UpdateLocked(t) ==
    /\ rq[t].pc = "commit"
    /\ rq[t].op = "update_fuel_entry"
    /\ rq[t].dirty # {}
    /\ lock # {}
    /\ UpdateRaised(t, "locked")
    /\ UNCHANGED <<service, seen, reply, vehicle, fuel, lock, workq, jobs, wk, pending, errors, errHist>>

\* session.commit(): the UPDATE fails for another reason
UpdateError(t) ==
    /\ rq[t].pc = "commit"
    /\ rq[t].op = "update_fuel_entry"
    /\ rq[t].dirty # {}
    /\ UpdateRaised(t, "error")
    /\ UNCHANGED <<service, seen, reply, vehicle, fuel, lock, workq, jobs, wk, pending, errors, errHist>>

\* session.commit(): COMMIT, session.refresh(db_entry), return 200
UpdateCommitDone(t) ==
    /\ rq[t].pc = "flushed"
    /\ rq[t].op = "update_fuel_entry"
    /\ fuel' = IF HasRow(rq[t].fid)
               THEN (fuel \ {Row(rq[t].fid)})
                    \cup {Written(Row(rq[t].fid), rq[t].dirty, rq[t].odo)}
               ELSE fuel
    /\ lock' = lock \ {<<"t", t>>}
    /\ rq' = [rq EXCEPT ![t] = IdleRq]
    /\ UNCHANGED <<service, seen, reply, vehicle, workq, jobs, wk, pending, errors, errHist>>

\* ------------------------------------------- _submit_bg called directly
\* _submit_bg(_bg_create_fuel, payload, user_id) and
\* _submit_bg(_bg_update_fuel, fuel_id, payload, user_id), with any arguments
SubmitJob(t, func, u, vid, fid, odo) ==
    /\ rq[t].pc = "idle"
    /\ Len(jobs) < MaxDirect
    /\ ExecutorSubmit(t, "_submit_bg", Job(func, u, vid, fid, odo, FALSE))
    /\ UNCHANGED <<service, seen, reply, vehicle, fuel, lock, wk, pending, errors, errHist>>

\* _submit_bg(func) with a callable that returns or raises
Returned == {j \in JobIds : ~jobs[j].raises}
SubmitCall(t, raises) ==
    /\ rq[t].pc = "idle"
    /\ Len(jobs) < MaxCalls
    /\ raises \/ Cardinality(Returned) < MaxOk
    /\ ExecutorSubmit(t, "_submit_bg", Job("call", 0, 0, 0, 0, raises))
    /\ UNCHANGED <<service, seen, reply, vehicle, fuel, lock, wk, pending, errors, errHist>>

\* ------------------------------------------------ upload_fuel_with_receipt
\* POST /fuel/upload up to session.add(new_entry): 403 unless the vehicle is
\* the caller's; the entry is created on the request thread
upload_fuel_status(u, vid) == IF ~Owns(u, vid) THEN 403 ELSE 201

upload_fuel_with_receipt(t, u, vid, odo) ==
    /\ rq[t].pc = "idle"
    /\ upload_fuel_status(u, vid) = 201
    /\ rq' = [rq EXCEPT ![t] = [IdleRq EXCEPT !.pc = "insert",
                                              !.op = "upload_fuel_with_receipt",
                                              !.user = u, !.fid = vid, !.odo = odo]]
    /\ UNCHANGED <<service, seen, reply, vehicle, fuel, lock, workq, jobs, wk, pending, errors, errHist>>

\* session.add(new_entry); session.commit(); session.refresh(new_entry)
UploadCommit(t) ==
    /\ rq[t].pc = "insert"
    /\ lock = {}
    /\ NewId <= MaxId
    /\ fuel' = fuel \cup {NewRow(NewId, rq[t].fid, rq[t].odo)}
    /\ rq' = [rq EXCEPT ![t] = IdleRq]
    /\ UNCHANGED <<service, seen, reply, vehicle, lock, workq, jobs, wk, pending, errors, errHist>>

\* except SQLAlchemyError: session.rollback(), 500
UploadFailed(t) ==
    /\ rq[t].pc = "insert"
    /\ rq' = [rq EXCEPT ![t] = IdleRq]
    /\ UNCHANGED <<service, seen, reply, vehicle, fuel, lock, workq, jobs, wk, pending, errors, errHist>>

\* ------------------------------------------------------ delete_fuel_entry
\* the status DELETE /fuel/{fuel_id} answers with before it deletes, 0 when
\* it goes on to session.delete
delete_fuel_status(u, fid) ==
    IF ~HasRow(fid) THEN 404
    ELSE IF ~Owns(u, Row(fid).vehicle_id) THEN 403 ELSE 0

\* DELETE /fuel/{fuel_id} up to session.delete(db_entry)
delete_fuel_entry(t, u, fid) ==
    /\ rq[t].pc = "idle"
    /\ delete_fuel_status(u, fid) = 0
    /\ rq' = [rq EXCEPT ![t] = [IdleRq EXCEPT !.pc = "delete",
                                              !.op = "delete_fuel_entry",
                                              !.user = u, !.fid = fid]]
    /\ UNCHANGED <<service, seen, reply, vehicle, fuel, lock, workq, jobs, wk, pending, errors, errHist>>

\* session.commit(): DELETE FROM fuelentry WHERE id = ..., 204
DeleteCommit(t) ==
    /\ rq[t].pc = "delete"
    /\ lock = {}
    /\ fuel' = {r \in fuel : r.id # rq[t].fid}
    /\ rq' = [rq EXCEPT ![t] = IdleRq]
    /\ UNCHANGED <<service, seen, reply, vehicle, lock, workq, jobs, wk, pending, errors, errHist>>

\* session.commit() raises (the write lock is held elsewhere, ...): 500
DeleteFailed(t) ==
    /\ rq[t].pc = "delete"
    /\ rq' = [rq EXCEPT ![t] = IdleRq]
    /\ UNCHANGED <<service, seen, reply, vehicle, fuel, lock, workq, jobs, wk, pending, errors, errHist>>

\* ------------------------------------------------------ list_fuel_entries
\* GET /fuel/vehicle/{vehicle_id}: the vehicle's entries (the code orders them
\* by date, newest first; they are held here as a set)
list_fuel_entries(u, vid) ==
    IF ~Owns(u, vid) THEN [op |-> "list_fuel_entries", status |-> 403]
    ELSE [op |-> "list_fuel_entries", status |-> 200,
          entries |-> {r \in fuel : r.vehicle_id = vid}]

\* ---------------------------------------------------------------- reports
\* Numbers: liters are held in ten-thousandths of a litre, costs in
\* thousandths, so that the rounding to 3 and 2 decimals has something to
\* round; a result with n decimals is held in units of 10^-n.  A datetime is
\* <<year, month, day, second of the day>>.
LitersScale == 10000
CostScale == 1000

\* a fuelentry row with the columns the reports read
FuelEntry(id, vid, date, odo, liters, cost) ==
    [id |-> id, vehicle_id |-> vid, date |-> date, odometer |-> odo,
     liters |-> liters, total_cost |-> cost]

\* a nullable text column: NULL, or a text (which may be empty)
Null == [null |-> TRUE, text |-> ""]
Str(s) == [null |-> FALSE, text |-> s]

\* a fuelentry row with every column; prices are held in thousandths
PriceScale == 1000
FullEntry(id, vid, date, odo, liters, price, cost, notes, receipt) ==
    FuelEntry(id, vid, date, odo, liters, cost)
        @@ [price_per_liter |-> price, notes |-> notes, receipt_photo |-> receipt]

\* round(x, n) of x = num / den (num >= 0, den > 0) in units of 10^-n
\* already folded into num / den: nearest integer, ties to even
Round(num, den) ==
    LET q == num \div den
        r == num % den
    IN IF 2 * r < den THEN q
       ELSE IF 2 * r > den THEN q + 1
       ELSE IF q % 2 = 0 THEN q ELSE q + 1

\* round(liters, 3), round(cost, 2), and round(liters / distance * 100, 2)
\* with the scales cancelled before multiplying
RoundLiters(x) == Round(x, LitersScale \div 1000)
RoundCost(x) == Round(x, CostScale \div 100)
PerHundredKm(liters, distance) == Round(liters * ((100 * 100) \div LitersScale), distance)

RECURSIVE Sum(_)
Sum(s) == IF s = <<>> THEN 0 ELSE Head(s) + Sum(Tail(s))

MinOf(S) == CHOOSE x \in S : \A y \in S : x <= y

\* datetime comparison
DateLt(a, b) ==
    \E i \in 1..4 : a[i] < b[i] /\ \A j \in 1..(i - 1) : a[j] = b[j]
DateLe(a, b) == a = b \/ DateLt(a, b)

\* .order_by(FuelEntry.odometer) / .order_by(FuelEntry.date): the rows of S
\* as a list
OrderByDate(S) ==
    CHOOSE s \in [1..Cardinality(S) -> S] :
        /\ \A i, j \in DOMAIN s : i < j => s[i] # s[j] /\ DateLe(s[i].date, s[j].date)
OrderByEntryDate(S) == OrderByDate(S)
OrderByOdometer(S) ==
    CHOOSE s \in [1..Cardinality(S) -> S] :
        /\ \A i, j \in DOMAIN s : i < j => s[i] # s[j] /\ s[i].odometer <= s[j].odometer

\* if distance <= 0
DistanceNegative(distance) == distance < 0
DistanceRejected(distance) == distance <= 0

\* GET /vehicles/{vehicle_id}/consumption
get_consumption(u, vid) ==
    IF ~Owns(u, vid) THEN [op |-> "get_consumption", status |-> 403]
    ELSE
    LET fuel_entries == OrderByOdometer({r \in fuel : r.vehicle_id = vid})
        n == Len(fuel_entries)
    IN IF n < 2 THEN [op |-> "get_consumption", status |-> 400]
       ELSE
       LET distance == fuel_entries[n].odometer - fuel_entries[1].odometer
           liters_used == Sum([i \in 1..n |-> fuel_entries[i].liters])
       IN IF DistanceRejected(distance) THEN [op |-> "get_consumption", status |-> 400]
          ELSE IF distance = 0      \* liters_used / distance: ZeroDivisionError
          THEN [op |-> "get_consumption", status |-> 500]
          ELSE [op |-> "get_consumption", status |-> 200, vehicle_id |-> vid,
                distance |-> distance, liters |-> liters_used,
                avg_consumption |-> PerHundredKm(liters_used, distance)]

\* datetime(year=year, month=month, day=1) raises ValueError outside these
ValidMonth(year, month) == year \in 1..9999 /\ month \in 1..12

\* start and next_month of monthly_report
MonthStart(year, month) == <<year, month, 1, 0>>
NextMonth(year, month) ==
    IF month = 12 THEN <<year + 1, 1, 1, 0>> ELSE <<year, month + 1, 1, 0>>

\* FuelEntry.date >= start, FuelEntry.date < next_month
InWindowClosed(d, start, next) == DateLe(start, d) /\ DateLe(d, next)
InWindow(d, start, next) == DateLe(start, d) /\ DateLt(d, next)

\* r.date.date(), kept as a datetime at midnight
DayOf(d) == <<d[1], d[2], d[3], 0>>

\* max(odometers) - min(odometers) when there are 2 or more, else 0
DistanceLastFirst(rows) ==
    IF Len(rows) >= 2 THEN rows[Len(rows)].odometer - rows[1].odometer ELSE 0
MonthDistance(rows) ==
    LET odometers == {rows[i].odometer : i \in 1..Len(rows)}
    IN IF Len(rows) >= 2 THEN MaxOf(odometers) - MinOf(odometers) ELSE 0

\* an Optional value: None, or the value
None == <<>>
Some(v) == <<v>>

\* avg_consumption: None unless distance > 0
MonthAvgZero(total_liters, distance) ==
    IF distance > 0
    THEN Some(PerHundredKm(total_liters, distance))
    ELSE Some(0)
MonthAvg(total_liters, distance) ==
    IF distance > 0
    THEN Some(PerHundredKm(total_liters, distance))
    ELSE None

\* the daily breakdown: one row per day of the rows, sorted by day
DailyPerEntry(rows) ==
    [i \in 1..Len(rows) |->
        [day |-> DayOf(rows[i].date),
         liters |-> RoundLiters(rows[i].liters),
         cost |-> RoundCost(rows[i].total_cost)]]
Daily(rows) ==
    LET days == {DayOf(rows[i].date) : i \in 1..Len(rows)}
        sorted == CHOOSE s \in [1..Cardinality(days) -> days] :
                      \A i, j \in DOMAIN s : i < j => DateLt(s[i], s[j])
        Of(day) == SelectSeq(rows, LAMBDA r : DayOf(r.date) = day)
    IN [k \in 1..Cardinality(days) |->
          LET on == Of(sorted[k])
          IN [day |-> sorted[k],
              liters |-> RoundLiters(Sum([i \in 1..Len(on) |-> on[i].liters])),
              cost |-> RoundCost(Sum([i \in 1..Len(on) |-> on[i].total_cost]))]]

\* if not rows: the zero-valued summary
EmptyReportRefused(vid, year, month) == [op |-> "monthly_report", status |-> 400]
EmptyReport(vid, year, month) ==
    [op |-> "monthly_report", status |-> 200, vehicle_id |-> vid,
     year |-> year, month |-> month, total_cost |-> 0, total_liters |-> 0,
     distance |-> 0, avg_consumption |-> None, entries |-> <<>>]

\* GET /reports/monthly
monthly_report(u, vid, year, month) ==
    IF ~Owns(u, vid) THEN [op |-> "monthly_report", status |-> 403]
    ELSE IF ~ValidMonth(year, month) \/ ~ValidMonth(NextMonth(year, month)[1], 1)
         \* either datetime(...) raised
    THEN [op |-> "monthly_report", status |-> 400]
    ELSE
    LET start == MonthStart(year, month)
        next_month == NextMonth(year, month)
        rows == OrderByDate({r \in fuel : /\ r.vehicle_id = vid
                                          /\ InWindow(r.date, start, next_month)})
        n == Len(rows)
    IN IF n = 0
       THEN EmptyReport(vid, year, month)
       ELSE
       LET distance == MonthDistance(rows)
           total_liters == Sum([i \in 1..n |-> rows[i].liters])
           total_cost == Sum([i \in 1..n |-> rows[i].total_cost])
       IN [op |-> "monthly_report", status |-> 200, vehicle_id |-> vid,
           year |-> year, month |-> month,
           total_cost |-> RoundCost(total_cost),
           total_liters |-> RoundLiters(total_liters),
           distance |-> distance,
           avg_consumption |-> MonthAvg(total_liters, distance),
           entries |-> rows,
           daily |-> Daily(rows)]

\* datetime.isoformat(): the text of a datetime.  A text is held as the
\* one-element tuple of the fields it spells; datetime.fromisoformat() gives
\* the datetime back and raises ValueError on a text that names no date
isoformat(d) == Some(d)
IsDate(d) == d[1] \in 1..9999 /\ d[2] \in 1..12 /\ d[3] \in 1..31
datetime_min == <<1, 1, 1, 0>>

\* the dicts monthly_report returns as "entries": the model keeps the rows in
\* the report and renders them here, where the CSV export reads them
EntryDict(r) ==
    [id |-> r.id, date |-> isoformat(r.date), odometer |-> r.odometer,
     liters |-> r.liters, price_per_liter |-> r.price_per_liter,
     total_cost |-> r.total_cost, notes |-> r.notes]

\* _parse_date_iso(s): datetime.min for None and for a text that does not parse
parse_date_iso(s) ==
    IF s = None THEN datetime_min
    ELSE IF IsDate(s[1]) THEN s[1] ELSE datetime_min

\* sorted(entries, key=lambda e: _parse_date_iso(e.get('date'))): ascending
\* and stable; the keys are naive datetimes, so the comparison never raises
\* and the fallback to the unsorted list is not taken
sorted_descending(entries) ==
    LET n == Len(entries)
        key(i) == parse_date_iso(entries[i].date)
        p == CHOOSE f \in [1..n -> 1..n] :
                \A i, j \in 1..n : i < j =>
                    \/ DateLt(key(f[j]), key(f[i]))
                    \/ key(f[i]) = key(f[j]) /\ f[i] < f[j]
    IN [i \in 1..n |-> entries[p[i]]]
sorted_by_date(entries) ==
    LET n == Len(entries)
        key(i) == parse_date_iso(entries[i].date)
        p == CHOOSE f \in [1..n -> 1..n] :
                \A i, j \in 1..n : i < j =>
                    \/ DateLt(key(f[i]), key(f[j]))
                    \/ key(f[i]) = key(f[j]) /\ f[i] < f[j]
    IN [i \in 1..n |-> entries[p[i]]]

\* writer.writerow([...]): csv.writer writes None as the empty field, a text
\* as it is and a number as its digits (which read back as the number)
CsvText(v) == v.text
CsvRow(e) ==
    <<e.id, e.date, e.odometer, e.liters, e.price_per_liter, e.total_cost,
      CsvText(e.notes)>>

\* GET /reports/monthly/csv: monthly_report's HTTPException passes through
monthly_report_csv(u, vid, year, month) ==
    LET data == monthly_report(u, vid, year, month)
    IN IF data.status # 200
       THEN [op |-> "monthly_report_csv", status |-> data.status]
       ELSE
       LET entries == [i \in 1..Len(data.entries) |-> EntryDict(data.entries[i])]
           entries_sorted == sorted_by_date(entries)
       IN [op |-> "monthly_report_csv", status |-> 200,
           summary |-> <<data.vehicle_id, data.year, data.month, data.total_cost,
                         data.total_liters, data.distance, data.avg_consumption>>,
           rows |-> [i \in 1..Len(entries_sorted) |-> CsvRow(entries_sorted[i])],
           filename |-> <<vid, year, month>>]

\* ---------------------------------------------------------- specifications
FuelIds == 1..(MaxJobs + 1)

Request(t) ==
    \/ \E u \in Users, vid \in VehicleIds, odo \in NewOdometers, numeric \in BOOLEAN :
            create_fuel_entry(t, u, vid, odo, numeric)
    \/ SubmitTrack(t)
    \/ SubmitAddCallback(t)
    \/ CreateFuelRespond(t)
    \/ \E u \in Users, fid \in FuelIds, odo \in Odometers, numeric \in BOOLEAN :
            update_fuel_entry(t, u, fid, odo, numeric)
    \/ UpdateCommitEmpty(t)
    \/ UpdateFlush(t)
    \/ UpdateLocked(t)
    \/ UpdateError(t)
    \/ UpdateCommitDone(t)

Worker(k) ==
    \/ WorkerTake(k)
    \/ BgCreateStart(k)
    \/ BgCommitEmpty(k)
    \/ BgCommitFlush(k)
    \/ BgCommitLocked(k)
    \/ BgCommitError(k)
    \/ BgCommitDone(k)
    \/ FutureSet(k)
    \/ InvokeCallbacks(k)

\* the application: request threads and the executor's worker
Next ==
    \/ \E t \in Threads : Request(t)
    \/ \E k \in Workers : Worker(k)

Spec == Init /\ [][Next]_vars

\* the write queue on its own: the two job functions submitted with any
\* arguments, beside update requests writing on their own threads
NextBg ==
    \/ \E t \in Callers :
        \/ \E u \in Users, vid \in VehicleIds, odo \in NewOdometers :
                SubmitJob(t, "create", u, vid, 0, odo)
        \/ \E u \in Users, fid \in FuelIds, odo \in Odometers :
                SubmitJob(t, "update", u, 0, fid, odo)
        \/ SubmitTrack(t)
        \/ SubmitAddCallback(t)
        \/ \E u \in Users, fid \in FuelIds, odo \in Odometers, numeric \in BOOLEAN :
                update_fuel_entry(t, u, fid, odo, numeric)
        \/ UpdateCommitEmpty(t)
        \/ UpdateFlush(t)
        \/ UpdateLocked(t)
        \/ UpdateError(t)
        \/ UpdateCommitDone(t)
    \/ \E k \in Workers : Worker(k) \/ BgUpdateStart(k)

SpecBg == Init /\ [][NextBg]_vars

\* ... with the executor's thread scheduled whenever it has a step to take:
\* commit returns or raises within the busy timeout, sleeps are finite
SpecBgFair == SpecBg /\ \A k \in Workers : WF_vars(Worker(k) \/ BgUpdateStart(k))

\* the vehicle row is deleted or given to another user behind the API's back
\* (no endpoint does either); what _bg_create_fuel re-reads the vehicle for
NewOwners == {0, 2}
VehicleLost(vid, w) ==
    /\ vehicle[vid] = 1
    /\ vehicle' = [vehicle EXCEPT ![vid] = w]
    /\ UNCHANGED <<service, seen, reply, fuel, lock, workq, jobs, wk, pending, errors, errHist, rq>>

\* create requests and the worker, while a vehicle can be lost
NextDrop ==
    \/ \E t \in Threads :
        \/ \E u \in Users, vid \in VehicleIds, odo \in NewOdometers, numeric \in BOOLEAN :
                create_fuel_entry(t, u, vid, odo, numeric)
        \/ SubmitTrack(t)
        \/ SubmitAddCallback(t)
        \/ CreateFuelRespond(t)
    \/ \E k \in Workers :
        \/ WorkerTake(k)
        \/ BgCreateStart(k)
        \/ BgCommitFlush(k)
        \/ BgCommitError(k)
        \/ BgCommitDone(k)
        \/ FutureSet(k)
        \/ InvokeCallbacks(k)
    \/ \E w \in NewOwners : VehicleLost(1, w)

SpecDrop == Init /\ [][NextDrop]_vars

\* the fuel endpoints that write on the request thread, called by two users
\* who each own a vehicle
InitAuth ==
    /\ vehicle = (1 :> 1) @@ (2 :> 2) @@ (3 :> 0)
    /\ fuel = {NewRow(1, 1, 1)}
    /\ lock = {}
    /\ workq = <<>>
    /\ jobs = <<>>
    /\ wk = [k \in Workers |-> IdleWk]
    /\ pending = <<>>
    /\ errors = <<>>
    /\ errHist = <<>>
    /\ rq = [t \in Threads |-> IdleRq]
    /\ reply = NoReply
    /\ service = {}
    /\ seen = {}

AuthIds == 1..MaxId

NextAuth ==
    \E t \in Threads :
        \/ \E u \in Users, vid \in VehicleIds, odo \in NewOdometers :
                upload_fuel_with_receipt(t, u, vid, odo)
        \/ UploadCommit(t)
        \/ UploadFailed(t)
        \/ \E u \in Users, fid \in AuthIds, odo \in Odometers, numeric \in BOOLEAN :
                update_fuel_entry(t, u, fid, odo, numeric)
        \/ UpdateCommitEmpty(t)
        \/ UpdateFlush(t)
        \/ UpdateLocked(t)
        \/ UpdateError(t)
        \/ UpdateCommitDone(t)
        \/ \E u \in Users, fid \in AuthIds : delete_fuel_entry(t, u, fid)
        \/ DeleteCommit(t)
        \/ DeleteFailed(t)

SpecAuth == InitAuth /\ [][NextAuth]_vars

\* the read endpoints, asked about any store of up to MaxEntries entries of
\* vehicle 1, beside an entry of another user's vehicle
ReportDates == {<<2024, 12, 1, 0>>, <<2024, 12, 1, 1>>, <<2024, 12, 31, 1>>, <<2025, 1, 1, 0>>}
ReportOdometers == {100, 400}
ReportLiters == {100004, 400000}    \* 10.0004 l, 40 l
ReportCosts == {50004, 200000}      \* 50.004, 200
ReportUsers == {1}                  \* the owner of vehicle 1
ReportYears == {2024, 2025}
ReportMonths == {0, 1, 11, 12, 13}
CsvVehicles == {1, 2}
CsvMonths == {1, 12, 13}
ReportPrice == 5 * PriceScale
ReportNotes == <<Null, Str(""), Str("full tank")>>   \* the notes of a row, by its id

EntryData ==
    {[date |-> d, odometer |-> o, liters |-> l, total_cost |-> c] :
        d \in ReportDates, o \in ReportOdometers, l \in ReportLiters, c \in ReportCosts}

RECURSIVE UpTo(_)
UpTo(k) ==
    IF k = 0 THEN {{}}
    ELSE UpTo(k - 1) \cup {S \cup {x} : S \in UpTo(k - 1), x \in EntryData}

\* the rows of vehicle 1 holding the data S, numbered from 1
Stored(S) ==
    LET id == CHOOSE f \in [S -> 1..Cardinality(S)] : \A x, y \in S : x # y => f[x] # f[y]
    IN {FullEntry(id[x], 1, x.date, x.odometer, x.liters, ReportPrice, x.total_cost,
                  ReportNotes[(id[x] % 3) + 1], Null) : x \in S}

OthersEntry ==
    FullEntry(MaxEntries + 1, 2, <<2024, 12, 1, 0>>, 900, 990000, ReportPrice, 990000,
              Null, Null)

InitReport ==
    /\ vehicle = (1 :> 1) @@ (2 :> 3) @@ (3 :> 0)
    /\ fuel \in {Stored(S) \cup {OthersEntry} : S \in UpTo(MaxEntries)}
    /\ lock = {}
    /\ workq = <<>>
    /\ jobs = <<>>
    /\ wk = [k \in Workers |-> IdleWk]
    /\ pending = <<>>
    /\ errors = <<>>
    /\ errHist = <<>>
    /\ rq = [t \in Threads |-> IdleRq]
    /\ reply = NoReply
    /\ service = {}
    /\ seen = {}

\* one read request, answered from the store as it stands
GetConsumption(u, vid) ==
    /\ reply = NoReply
    /\ reply' = [req |-> <<"get_consumption", u, vid>>, resp |-> get_consumption(u, vid)]
    /\ UNCHANGED <<service, seen, vehicle, fuel, lock, workq, jobs, wk, pending, errors, errHist, rq>>

MonthlyReport(u, vid, year, month) ==
    /\ reply = NoReply
    /\ reply' = [req |-> <<"monthly_report", u, vid, year, month>>,
                 resp |-> monthly_report(u, vid, year, month)]
    /\ UNCHANGED <<service, seen, vehicle, fuel, lock, workq, jobs, wk, pending, errors, errHist, rq>>

MonthlyReportCsv(u, vid, year, month) ==
    /\ reply = NoReply
    /\ reply' = [req |-> <<"monthly_report_csv", u, vid, year, month>>,
                 resp |-> monthly_report_csv(u, vid, year, month)]
    /\ UNCHANGED <<service, seen, vehicle, fuel, lock, workq, jobs, wk, pending, errors, errHist, rq>>

NextReport ==
    \/ \E u \in ReportUsers, vid \in VehicleIds : GetConsumption(u, vid)
    \/ \E u \in ReportUsers, vid \in CsvVehicles, year \in ReportYears, month \in CsvMonths :
            MonthlyReportCsv(u, vid, year, month)
    \/ \E u \in ReportUsers, vid \in VehicleIds, year \in ReportYears, month \in ReportMonths :
            MonthlyReport(u, vid, year, month)

SpecReport == InitReport /\ [][NextReport]_vars

\* ------------------------------------------- the endpoints, one request
\* A request body.  Its numbers are held in fixed point; shape tells whether
\* every required field is there and every number reads as one.  A date is
\* None or the text of one (Some(d)); total_cost is None or Some(cost).
WellFormed(body) == body.shape = "ok"

\* datetime.fromisoformat(text) succeeds
Parses(text) == IsDate(text[1])
fromisoformat(text) == text[1]

\* FuelEntryCreate / ServiceEventCreate as the type of a JSON body: FastAPI
\* answers 422 before the handler runs when a required field is missing, a
\* number does not read as one or a date does not parse.  What reaches the
\* handler is typed, so its own 400 branches for numbers and for a date
\* still held as a string are never taken
Validates(body) == WellFormed(body) /\ (body.date = None \/ Parses(body.date))

\* round(liters * price_per_liter, 2), in units of 1 / CostScale: the product
\* is in units of 10^-7 and is taken in two parts to stay within the integers
round_floor(liters, price) ==
    LET hi == (liters \div 1000) * price
        rest == (hi % 100) * 1000 + (liters % 1000) * price
    IN (hi \div 100 + rest \div 100000) * (CostScale \div 100)
round_cost(liters, price) ==
    LET hi == (liters \div 1000) * price
        rest == (hi % 100) * 1000 + (liters % 1000) * price
    IN (hi \div 100 + Round(rest, 100000)) * (CostScale \div 100)

\* total_cost = fuel.total_cost; if not total_cost: total_cost = round(...)
total_cost_or_default(body) ==
    IF body.total_cost = None \/ body.total_cost[1] = 0
    THEN round_cost(body.liters, body.price_per_liter)
    ELSE body.total_cost[1]

\* date_val: utcnow() for no date, else the date pydantic parsed
date_or_now(body, now) == IF body.date = None THEN now ELSE fromisoformat(body.date)

\* create_fuel_entry: the payload handed to _bg_create_fuel
create_fuel_payload(body, now) ==
    [vehicle_id |-> body.vehicle_id, date |-> date_or_now(body, now),
     odometer |-> body.odometer, liters |-> body.liters,
     price_per_liter |-> body.price_per_liter,
     total_cost |-> total_cost_or_default(body), notes |-> body.notes]

\* POST /fuel/: the status answered
post_fuel_status(u, body) ==
    IF ~Validates(body) THEN 422
    ELSE IF ~Owns(u, body.vehicle_id) THEN 403
    ELSE 202

\* the statuses with which create_fuel_entry hands a job to _submit_bg
SubmitsJobUnvalidated(st) == st \in {202, 422}
SubmitsJob(st) == st = 202

\* _bg_create_fuel: db_entry = FuelEntry(...); receipt_photo keeps its default
bg_create_entry(payload, id) ==
    FullEntry(id, payload.vehicle_id, payload.date, payload.odometer, payload.liters,
              payload.price_per_liter, payload.total_cost, payload.notes, Null)

\* POST /fuel/ from the request to its answer: _submit_bg queues the job,
\* tracks it in _pending_futures and registers _on_done
PostFuel(u, body, now) ==
    /\ reply = NoReply
    /\ LET st == post_fuel_status(u, body)
           j == Len(jobs) + 1
       IN /\ reply' = [req |-> <<"create_fuel_entry", u, 0, body>>,
                       resp |-> [op |-> "create_fuel_entry", status |-> st, id |-> 0]]
          /\ IF SubmitsJob(st)
             THEN /\ jobs' = Append(jobs,
                        [Job("create", u, body.vehicle_id, 0, body.odometer, FALSE)
                            EXCEPT !.tracked = TRUE, !.cb = "registered", !.resp = "queued"]
                        @@ [payload |-> create_fuel_payload(body, now)])
                  /\ workq' = Append(workq, j)
                  /\ pending' = Append(pending, j)
             ELSE UNCHANGED <<jobs, workq, pending>>
    /\ UNCHANGED <<service, seen, vehicle, fuel, lock, wk, errors, errHist, rq>>

\* the worker runs the oldest job to its end with no other writer about:
\* _bg_create_fuel, then _on_done
RunCreateJob ==
    /\ workq # <<>>
    /\ LET j == QueueGet(workq)[1]
           owned == Owns(jobs[j].user, jobs[j].payload.vehicle_id)
       IN /\ workq' = QueueGet(workq)[2]
          /\ fuel' = IF owned THEN fuel \cup {bg_create_entry(jobs[j].payload, NewId)}
                     ELSE fuel
          /\ jobs' = [jobs EXCEPT ![j].st = "finished", ![j].cb = "ran",
                                  ![j].out = IF owned THEN "committed" ELSE "dropped",
                                  ![j].tries = IF owned THEN <<"ok">> ELSE <<>>,
                                  ![j].ins = IF owned THEN 1 ELSE 0]
          /\ pending' = RemoveFirst(pending, j)
    /\ seen' = IF fuel' = fuel THEN seen ELSE {}
    /\ UNCHANGED <<service, reply, vehicle, lock, wk, errors, errHist, rq>>

\* update_fuel_entry: the entry after "Apply updates"
apply_updates_overwrites_notes(db_entry, body, now) ==
    [db_entry EXCEPT !.odometer = body.odometer, !.liters = body.liters,
                     !.price_per_liter = body.price_per_liter,
                     !.total_cost = total_cost_or_default(body),
                     !.date = date_or_now(body, now),
                     !.notes = body.notes]
apply_updates(db_entry, body, now) ==
    [db_entry EXCEPT !.odometer = body.odometer, !.liters = body.liters,
                     !.price_per_liter = body.price_per_liter,
                     !.total_cost = total_cost_or_default(body),
                     !.date = date_or_now(body, now),
                     !.notes = IF body.notes.null THEN @ ELSE body.notes]

\* PUT /fuel/{fuel_id}: the status answered
put_fuel_status(u, fid, body) ==
    IF ~Validates(body) THEN 422
    ELSE IF ~HasRow(fid) THEN 404
    ELSE IF ~Owns(u, Row(fid).vehicle_id) THEN 403
    ELSE 200

\* PUT /fuel/{fuel_id} from the request to its answer, the commit succeeding
\* at the first attempt
PutFuel(u, fid, body, now) ==
    /\ reply = NoReply
    /\ LET st == put_fuel_status(u, fid, body) IN
        /\ reply' = [req |-> <<"update_fuel_entry", u, fid, body>>,
                     resp |-> [op |-> "update_fuel_entry", status |-> st,
                               id |-> IF st = 200 THEN fid ELSE 0]]
        /\ fuel' = IF st = 200
                   THEN (fuel \ {Row(fid)}) \cup {apply_updates(Row(fid), body, now)}
                   ELSE fuel
    /\ seen' = IF fuel' = fuel THEN seen ELSE {}
    /\ UNCHANGED <<service, vehicle, lock, workq, jobs, wk, pending, errors, errHist, rq>>

\* upload_fuel_with_receipt: the form fields are typed (422 as for a JSON
\* body) except date and notes, which are texts of any kind
\* date_val: None for no date and for a date that does not parse, and
\* utcnow() in place of None when the entry is built
upload_date(form, now) ==
    IF form.date # None /\ Parses(form.date) THEN fromisoformat(form.date) ELSE now

\* total_cost_v: the form's total_cost, round(liters_v * price_v, 2) without
upload_total_cost(form) ==
    IF form.total_cost = None THEN round_cost(form.liters, form.price_per_liter)
    ELSE form.total_cost[1]

\* receipt_relative: the path the receipt was saved under
receipt_path(receipt) == IF receipt = None THEN Null ELSE Str("uploads/receipt")

upload_new_entry(form, receipt, now, id) ==
    FullEntry(id, form.vehicle_id, upload_date(form, now), form.odometer, form.liters,
              form.price_per_liter, upload_total_cost(form), form.notes,
              receipt_path(receipt))

\* POST /fuel/upload: the status answered
post_upload_status(u, form) ==
    IF ~WellFormed(form) THEN 422
    ELSE IF ~Owns(u, form.vehicle_id) THEN 403
    ELSE 201

PostFuelUpload(u, form, receipt, now) ==
    /\ reply = NoReply
    /\ LET st == post_upload_status(u, form) IN
        /\ reply' = [req |-> <<"upload_fuel_with_receipt", u, 0, form>>,
                     resp |-> [op |-> "upload_fuel_with_receipt", status |-> st,
                               id |-> IF st = 201 THEN NewId ELSE 0]]
        /\ fuel' = IF st = 201 THEN fuel \cup {upload_new_entry(form, receipt, now, NewId)}
                   ELSE fuel
    /\ seen' = IF fuel' = fuel THEN seen ELSE {}
    /\ UNCHANGED <<service, vehicle, lock, workq, jobs, wk, pending, errors, errHist, rq>>

\* DELETE /fuel/{fuel_id} from the request to its answer
delete_fuel_answer(st) == IF st = 0 THEN 204 ELSE st
DeleteFuel(u, fid) ==
    /\ reply = NoReply
    /\ LET st == delete_fuel_status(u, fid) IN
        /\ reply' = [req |-> <<"delete_fuel_entry", u, fid, None>>,
                     resp |-> [op |-> "delete_fuel_entry", status |-> delete_fuel_answer(st),
                               id |-> 0]]
        /\ fuel' = IF st = 0 THEN {r \in fuel : r.id # fid} ELSE fuel
    /\ seen' = IF fuel' = fuel THEN seen ELSE {}
    /\ UNCHANGED <<service, vehicle, lock, workq, jobs, wk, pending, errors, errHist, rq>>

\* ---------------------------------------------------------- service events
HasEvent(sid) == \E e \in service : e.id = sid
Event(sid) == CHOOSE e \in service : e.id = sid
NewServiceId == IF service = {} THEN 1 ELSE MaxOf({e.id : e \in service}) + 1

\* a serviceevent row; next_due_date is None or Some(datetime)
ServiceEvent(id, vid, date, type, description, cost, next_due) ==
    [id |-> id, vehicle_id |-> vid, date |-> date, type |-> type,
     description |-> description, cost |-> cost, next_due_date |-> next_due]

\* next_due: the parsed date, None for none and for a text that does not parse
next_due_of(body) ==
    IF body.next_due_date # None /\ Parses(body.next_due_date)
    THEN Some(fromisoformat(body.next_due_date)) ELSE None

new_event(body, now, id) ==
    ServiceEvent(id, body.vehicle_id, date_or_now(body, now), body.type,
                 body.description, body.cost, next_due_of(body))

\* "apply updates": every column but id and vehicle_id
updated_event(db_event, body, now) ==
    [db_event EXCEPT !.type = body.type, !.description = body.description,
                     !.cost = body.cost, !.date = date_or_now(body, now),
                     !.next_due_date = next_due_of(body)]

\* POST /service/
create_service_status(u, body) ==
    IF ~Validates(body) THEN 422
    ELSE IF ~Owns(u, body.vehicle_id) THEN 403
    ELSE 201

create_service_event(u, body, now) ==
    /\ reply = NoReply
    /\ LET st == create_service_status(u, body) IN
        /\ reply' = [req |-> <<"create_service_event", u, 0, body>>,
                     resp |-> [op |-> "create_service_event", status |-> st,
                               id |-> IF st = 201 THEN NewServiceId ELSE 0]]
        /\ service' = IF st = 201 THEN service \cup {new_event(body, now, NewServiceId)}
                      ELSE service
    /\ UNCHANGED <<seen, vehicle, fuel, lock, workq, jobs, wk, pending, errors, errHist, rq>>

\* PUT /service/{service_id}: an id that names no event falls back to create
missing_event_is_not_found(u, body) == 404
missing_event_status(u, body) == IF ~Owns(u, body.vehicle_id) THEN 403 ELSE 201

update_service_status(u, sid, body) ==
    IF ~Validates(body) THEN 422
    ELSE IF ~HasEvent(sid) THEN missing_event_status(u, body)
    ELSE IF ~Owns(u, Event(sid).vehicle_id) THEN 403
    ELSE 200

update_service_event(u, sid, body, now) ==
    /\ reply = NoReply
    /\ LET st == update_service_status(u, sid, body) IN
        /\ reply' = [req |-> <<"update_service_event", u, sid, body>>,
                     resp |-> [op |-> "update_service_event", status |-> st,
                               id |-> IF st = 201 THEN NewServiceId
                                      ELSE IF st = 200 THEN sid ELSE 0]]
        /\ service' =
            IF st = 201 THEN service \cup {new_event(body, now, NewServiceId)}
            ELSE IF st = 200
            THEN (service \ {Event(sid)}) \cup {updated_event(Event(sid), body, now)}
            ELSE service
    /\ UNCHANGED <<seen, vehicle, fuel, lock, workq, jobs, wk, pending, errors, errHist, rq>>

\* POST /service/upsert: the payload is a dict, checked by the handler: 400
\* for a cost that is no number and for a date that does not parse; an id
\* that is falsy or names no event creates
upsert_service_status(u, payload) ==
    IF ~WellFormed(payload) THEN 400
    ELSE IF payload.date # None /\ ~Parses(payload.date) THEN 400
    ELSE IF payload.id # None /\ payload.id[1] # 0 /\ HasEvent(payload.id[1])
    THEN IF ~Owns(u, Event(payload.id[1]).vehicle_id) THEN 403 ELSE 200
    ELSE IF ~Owns(u, payload.vehicle_id) THEN 403
    ELSE 201

upsert_service_event(u, payload, now) ==
    /\ reply = NoReply
    /\ LET st == upsert_service_status(u, payload)
           sid == IF payload.id = None THEN 0 ELSE payload.id[1]
       IN
        /\ reply' = [req |-> <<"upsert_service_event", u, sid, payload>>,
                     resp |-> [op |-> "upsert_service_event", status |-> st,
                               id |-> IF st = 201 THEN NewServiceId
                                      ELSE IF st = 200 THEN sid ELSE 0]]
        /\ service' =
            IF st = 201 THEN service \cup {new_event(payload, now, NewServiceId)}
            ELSE IF st = 200
            THEN (service \ {Event(sid)}) \cup {updated_event(Event(sid), payload, now)}
            ELSE service
    /\ UNCHANGED <<seen, vehicle, fuel, lock, workq, jobs, wk, pending, errors, errHist, rq>>

\* GET /service/{service_id}
get_service_event(u, sid) ==
    IF ~HasEvent(sid) THEN [op |-> "get_service_event", status |-> 404]
    ELSE IF ~Owns(u, Event(sid).vehicle_id) THEN [op |-> "get_service_event", status |-> 403]
    ELSE [op |-> "get_service_event", status |-> 200, event |-> Event(sid)]

\* GET /service/vehicle/{vehicle_id} (ordered by date, newest first; held
\* here as a set)
list_service_events(u, vid) ==
    IF ~Owns(u, vid) THEN [op |-> "list_service_events", status |-> 403]
    ELSE [op |-> "list_service_events", status |-> 200,
          events |-> {e \in service : e.vehicle_id = vid}]

\* DELETE /service/{service_id}
delete_service_status(u, sid) ==
    IF ~HasEvent(sid) THEN 404
    ELSE IF ~Owns(u, Event(sid).vehicle_id) THEN 403 ELSE 204

deleted_all_of_vehicle(S, sid) == {e \in S : e.id # sid /\ e.vehicle_id # Event(sid).vehicle_id}
deleted(S, sid) == {e \in S : e.id # sid}

delete_service_event(u, sid) ==
    /\ reply = NoReply
    /\ LET st == delete_service_status(u, sid) IN
        /\ reply' = [req |-> <<"delete_service_event", u, sid, None>>,
                     resp |-> [op |-> "delete_service_event", status |-> st, id |-> 0]]
        /\ service' = IF st = 204 THEN deleted(service, sid) ELSE service
    /\ UNCHANGED <<seen, vehicle, fuel, lock, workq, jobs, wk, pending, errors, errHist, rq>>

\* ------------------------------------------------- the requests of SpecApi
Clock == {<<2025, 6, 1, 0>>, <<2025, 6, 2, 7>>}     \* what utcnow() can give
ApiDates == {None, Some(<<2024, 12, 24, 0>>), Some(<<2024, 0, 24, 0>>)}
ApiIds == {1, 2, 4}

\* 40 l, 10.5 l and 10.0004 l, at 6.259 each (250.36, 65.7195, 62.5925...)
ApiLiters == {400000, 105000, 100004}
ApiCosts == {None, Some(0), Some(123450)}
ApiNotes == {Null, Str("paid in cash")}
Shapes == {"ok", "not a number", "field missing"}

FuelBodies ==
    {[vehicle_id |-> vid, date |-> d, odometer |-> 500, liters |-> l,
      price_per_liter |-> 6259, total_cost |-> c, notes |-> n, shape |-> sh] :
        vid \in VehicleIds, d \in ApiDates, l \in ApiLiters, c \in ApiCosts,
        n \in ApiNotes, sh \in Shapes}
Receipts == {None, Some("receipt.jpg")}

ServiceBodies ==
    {[vehicle_id |-> vid, date |-> d, type |-> "oil change", description |-> n,
      cost |-> 150000, next_due_date |-> nd, shape |-> sh] :
        vid \in VehicleIds, d \in ApiDates, n \in ApiNotes,
        nd \in {None, Some(<<2025, 12, 24, 0>>)}, sh \in Shapes}
\* a dict has no required field
UpsertPayloads ==
    {b @@ [id |-> i] : b \in {x \in ServiceBodies : x.shape # "field missing"},
                       i \in {None, Some(0)} \cup {Some(k) : k \in ApiIds}}

\* the rows a request can find in the store: two entries of vehicle 1 (one
\* with notes and a receipt), one of another user's vehicle, and likewise
\* for service events
ApiFuelRows ==
    {FullEntry(1, 1, <<2024, 12, 1, 0>>, 100, 400000, 5000, 200000, Null, Null),
     FullEntry(2, 1, <<2024, 12, 31, 1>>, 400, 105000, 6259, 65720, Str("full tank"),
               Str("uploads/receipt_1")),
     FullEntry(4, 2, <<2024, 12, 1, 0>>, 900, 990000, 5000, 990000, Null, Null)}
ApiServiceRows ==
    {ServiceEvent(1, 1, <<2024, 11, 5, 0>>, "tyres", Null, 800000, None),
     ServiceEvent(2, 1, <<2024, 12, 5, 0>>, "brakes", Str("front"), 300000,
                  Some(<<2025, 12, 5, 0>>)),
     ServiceEvent(4, 2, <<2024, 12, 1, 0>>, "oil change", Null, 150000, None)}

InitApi ==
    /\ vehicle = (1 :> 1) @@ (2 :> 3) @@ (3 :> 0)
    /\ fuel \in {S \in SUBSET ApiFuelRows : Cardinality(S) <= MaxRows}
    /\ service \in {S \in SUBSET ApiServiceRows : Cardinality(S) <= MaxRows}
    /\ lock = {}
    /\ workq = <<>>
    /\ jobs = <<>>
    /\ wk = [k \in Workers |-> IdleWk]
    /\ pending = <<>>
    /\ errors = <<>>
    /\ errHist = <<>>
    /\ rq = [t \in Threads |-> IdleRq]
    /\ reply = NoReply
    /\ seen = {}

\* one request of any kind to a store of any content, and the job it queued
\* (no request is taken up once one has been answered)
NextApi ==
    \/ reply = NoReply /\ \E u \in Users, body \in FuelBodies, now \in Clock : PostFuel(u, body, now)
    \/ RunCreateJob
    \/ reply = NoReply /\ \E u \in Users, fid \in ApiIds, body \in FuelBodies, now \in Clock :
            PutFuel(u, fid, body, now)
    \/ reply = NoReply /\ \E u \in Users, form \in FuelBodies, receipt \in Receipts, now \in Clock :
            PostFuelUpload(u, form, receipt, now)
    \/ reply = NoReply /\ \E u \in Users, fid \in ApiIds : DeleteFuel(u, fid)
    \/ reply = NoReply /\ \E u \in Users, body \in ServiceBodies, now \in Clock :
            create_service_event(u, body, now)
    \/ reply = NoReply /\ \E u \in Users, sid \in ApiIds, body \in ServiceBodies, now \in Clock :
            update_service_event(u, sid, body, now)
    \/ reply = NoReply /\ \E u \in Users, payload \in UpsertPayloads, now \in Clock :
            upsert_service_event(u, payload, now)
    \/ reply = NoReply /\ \E u \in Users, sid \in ApiIds : delete_service_event(u, sid)

SpecApi == InitApi /\ [][NextApi]_vars

\* ------------------------------------------ reports asked for repeatedly
\* GET /reports/monthly, answered from the store as it stands and noted in
\* seen with the number of times the same request has had this treatment
Seen(req) == {a \in seen : a.req = req}
TimesSeen(req) == IF Seen(req) = {} THEN 0 ELSE (CHOOSE a \in Seen(req) : TRUE).n

RereadMonthlyReportLogging(u, vid, year, month) ==
    LET req == <<u, vid, year, month>>
        resp == monthly_report(u, vid, year, month)
    IN /\ TimesSeen(req) < MaxReads
       /\ seen' = (seen \ Seen(req))
                    \cup {[req |-> req, resp |-> resp, n |-> TimesSeen(req) + 1]}
       /\ errors' = IF resp.status = 200 THEN errors ELSE RecordError(errors, 0)
       /\ UNCHANGED <<service, reply, vehicle, fuel, lock, workq, jobs, wk, pending,
                      errHist, rq>>
RereadMonthlyReport(u, vid, year, month) ==
    LET req == <<u, vid, year, month>>
        resp == monthly_report(u, vid, year, month)
    IN /\ TimesSeen(req) < MaxReads
       /\ seen' = (seen \ Seen(req))
                    \cup {[req |-> req, resp |-> resp, n |-> TimesSeen(req) + 1]}
       /\ UNCHANGED <<service, reply, vehicle, fuel, lock, workq, jobs, wk, pending,
                      errors, errHist, rq>>

RereadMonths == {<<2024, 12>>, <<2025, 6>>}
RereadBodies ==
    {b \in FuelBodies : /\ b.shape = "ok" /\ b.vehicle_id = 1 /\ b.liters = 105000
                        /\ b.total_cost = None /\ b.notes = Null}

\* the owner asks for reports while one request of theirs or of another user
\* is handled and the job it queued runs
NextReread ==
    \/ \E u \in ReportUsers, vid \in CsvVehicles, ym \in RereadMonths :
            RereadMonthlyReport(u, vid, ym[1], ym[2])
    \/ reply = NoReply /\ \E u \in Users, body \in RereadBodies, now \in Clock :
            PostFuel(u, body, now)
    \/ RunCreateJob
    \/ reply = NoReply /\ \E u \in Users, fid \in ApiIds, body \in RereadBodies, now \in Clock :
            PutFuel(u, fid, body, now)
    \/ reply = NoReply /\ \E u \in Users, fid \in ApiIds : DeleteFuel(u, fid)
    \/ reply = NoReply /\ \E u \in Users, sid \in ApiIds : delete_service_event(u, sid)

SpecReread == InitApi /\ [][NextReread]_vars

\* _submit_bg and _on_done on their own: callables that return or raise
NextLog ==
    \/ \E t \in Callers :
        \/ \E raises \in BOOLEAN : SubmitCall(t, raises)
        \/ SubmitTrack(t)
        \/ SubmitAddCallback(t)
    \/ \E k \in Workers :
        \/ WorkerTake(k)
        \/ CallRun(k)
        \/ FutureSet(k)
        \/ InvokeCallbacks(k)

SpecLog == Init /\ [][NextLog]_vars

\* ------------------------------------------------------------- properties
Range(s) == {s[i] : i \in 1..Len(s)}
LastN(s, n) == IF Len(s) <= n THEN s ELSE SubSeq(s, Len(s) - n + 1, Len(s))

\* a session.commit() that has something to write is under way
ThreadWrites(t) == rq[t].pc = "flushed" \/ (rq[t].pc = "commit" /\ rq[t].dirty # {})
WorkerWrites(k) == wk[k].pc = "flushed" \/ (wk[k].pc = "commit" /\ ~NothingToFlush(wk[k]))
Writers == {<<"t", t>> : t \in {x \in Threads : ThreadWrites(x)}}
           \cup {<<"w", k>> : k \in {x \in Workers : WorkerWrites(x)}}

C2_Fifo ==
    \A i, j \in JobIds :
        (i < j /\ jobs[j].st # "queued") => jobs[i].st = "finished"

C2_Witness ==
    \E i, j \in JobIds : i < j /\ jobs[i].st = "finished" /\ jobs[j].st = "running"

\* C3, as claimed: every job that ended in a terminal failure has an entry in
\* the recent-errors log once its completion callback has run.
C3_FailureLogged ==
    \A j \in JobIds :
        (jobs[j].out = "failed" /\ jobs[j].cb = "ran") => j \in Range(errHist)

\* C4, as claimed: a create job whose commit met locking conflicts and then
\* succeeded has inserted exactly one fuel entry.
C4_RetryInsertsOnce ==
    \A j \in JobIds :
        (jobs[j].func = "create" /\ jobs[j].out = "committed"
            /\ "locked" \in Range(jobs[j].tries))
        => jobs[j].ins = 1

\* C5: a job makes at most 3 commit attempts; an attempt is followed by
\* another only when it met a locking conflict, after a backoff of 0.5 s
\* times the attempt's number; any other error, and a conflict on attempt 3,
\* ends the job as failed with no further attempt.
C5_RetryPolicy ==
    \A j \in JobIds :
        LET tr == jobs[j].tries
            sl == jobs[j].sleeps
        IN /\ Len(tr) <= Attempts
           /\ \A i \in 1..(Len(tr) - 1) : tr[i] = "locked"
           /\ Len(sl) <= LastRetry
           /\ \A i \in 1..Len(sl) : sl[i] = i /\ tr[i] = "locked"
           /\ \A i \in 1..Len(tr) :
                (tr[i] = "error" \/ (tr[i] = "locked" /\ i = Attempts))
                => (i = Len(tr) /\ jobs[j].out = "failed")
           /\ jobs[j].out = "failed" =>
                \A k \in Workers : wk[k].job = j => wk[k].pc \notin {"commit", "flushed"}

\* a job was retried once after a locking conflict, backed off 0.5 s and ended
C5_Witness ==
    \E j \in JobIds :
        /\ jobs[j].sleeps = <<1>>
        /\ Len(jobs[j].tries) = 2
        /\ jobs[j].st = "finished"

\* C6: the request is answered 'queued' whatever has become of the job by
\* then: still queued, running, committed, failed or dropped.
C6_AnsweredQueued ==
    \A j \in JobIds : jobs[j].resp # "none" => jobs[j].resp = "queued"

\* answered while the job has not run: the entry is not in the store
C6_Witness ==
    \E j \in JobIds :
        jobs[j].resp = "queued" /\ jobs[j].st = "queued" /\ jobs[j].ins = 0

\* the vehicle a job writes to, as the store holds it when the job runs
JobOwnsTarget(j) ==
    IF jobs[j].func = "create"
    THEN Owns(jobs[j].user, jobs[j].vid)
    ELSE HasRow(jobs[j].fid) /\ Owns(jobs[j].user, Row(jobs[j].fid).vehicle_id)

\* C7: a step of the worker changes the store only when the job's target
\* vehicle exists and is owned by the user who submitted the job.
C7_Revalidated ==
    [][(wk' # wk /\ fuel' # fuel) =>
            \E k \in Workers : wk'[k] # wk[k] /\ JobOwnsTarget(wk[k].job)]_vars

\* a job was dropped by the re-validation and has finished
C7_Witness ==
    \E j \in JobIds :
        jobs[j].out = "dropped" /\ jobs[j].st = "finished" /\ ~JobOwnsTarget(j)

\* C8: the recent-errors log holds at most 20 entries, the newest 20 ever
\* recorded, in order of recording.
C8_LogBounded ==
    /\ Len(errors) <= LogCapacity
    /\ errors = LastN(errHist, LogCapacity)

\* an error was recorded while the log held 20
C8_Witness == Len(errHist) > LogCapacity /\ Len(errors) = LogCapacity

\* the jobs _submit_bg has recorded and whose _on_done has not run
Outstanding == {j \in JobIds : jobs[j].tracked /\ jobs[j].cb # "ran"}

UpdateAnswers200(t) ==
    /\ rq[t].op = "update_fuel_entry"
    /\ \/ rq[t].pc = "flushed"
       \/ rq[t].pc = "commit" /\ rq[t].dirty = {} /\ HasRow(rq[t].fid)

\* C10, as claimed: a write W2 submitted after the writes before it on the
\* same record have completed, with no other update of the record under way,
\* is applied on top of them: when W2 is answered the record carries W2's
\* values.
C10_WriteApplied ==
    [][\A t \in Threads :
            (UpdateAnswers200(t) /\ ~rq[t].ovl /\ rq'[t].pc = "idle")
            => \E r \in fuel' : r.id = rq[t].fid /\ r.odometer = rq[t].odo]_vars

RowsChanged == (fuel \ fuel') \cup (fuel' \ fuel)

\* C12, as claimed: whenever a request changes or deletes fuel entries, or
\* creates one, each of them belongs to a vehicle owned by the requesting
\* user.
C12_OwnRecordsOnly ==
    [][\A t \in Threads :
            rq'[t] # rq[t] =>
                \A r \in RowsChanged : Owns(rq[t].user, r.vehicle_id)]_vars

\* what the endpoints taking a vehicle id, and those taking a fuel entry id,
\* answer user u before they do anything else
VehicleStatuses(u, vid) ==
    {create_fuel_status(u, vid, TRUE), upload_fuel_status(u, vid),
     get_consumption(u, vid).status, monthly_report(u, vid, 2024, 12).status}
EntryStatuses(u, fid) == {update_fuel_status(u, fid, TRUE), delete_fuel_status(u, fid)}

\* C13, as claimed: an endpoint answers 403 only when the record its id
\* names exists and belongs to another user, and 404 when the id names no
\* record.
C13_DeniedOrNotFound ==
    /\ \A u \in Users, vid \in VehicleIds :
          \A st \in VehicleStatuses(u, vid) :
              /\ st = 403 => (vehicle[vid] # 0 /\ vehicle[vid] # u)
              /\ vehicle[vid] = 0 => st = 404
    /\ \A u \in Users, fid \in 1..(MaxEntries + 2) :
          \A st \in EntryStatuses(u, fid) :
              /\ st = 403 => (HasRow(fid) /\ ~Owns(u, Row(fid).vehicle_id))
              /\ ~HasRow(fid) => st = 404

\* the entries of a vehicle and their figures, taken from the store directly
EntriesOf(vid) == {r \in fuel : r.vehicle_id = vid}
OdometersOf(S) == {r.odometer : r \in S}
RECURSIVE LitersOf(_)
LitersOf(S) ==
    IF S = {} THEN 0
    ELSE LET r == CHOOSE x \in S : TRUE IN r.liters + LitersOf(S \ {r})
RECURSIVE CostOf(_)
CostOf(S) ==
    IF S = {} THEN 0
    ELSE LET r == CHOOSE x \in S : TRUE IN r.total_cost + CostOf(S \ {r})
Abs(x) == IF x < 0 THEN -x ELSE x

\* avg, in hundredths, is liters / distance * 100 to the nearest hundredth
IsPerHundredKm(avg, liters, distance) ==
    2 * Abs(avg * distance - liters * ((100 * 100) \div LitersScale)) <= distance

Asked(op) == reply.req # <<>> /\ reply.req[1] = op

\* C14: for a vehicle of the caller with at least 2 entries whose largest
\* odometer exceeds the smallest, get_consumption answers 200 with distance =
\* largest - smallest odometer, liters = the sum of all entries' liters and
\* avg_consumption = liters / distance * 100 rounded to 2 decimals; 10000 and
\* 10500 km with 40 and 38 l give 15.6.
C14_Consumption ==
    /\ PerHundredKm(40 * LitersScale + 38 * LitersScale, 10500 - 10000) = 1560
    /\ Asked("get_consumption") =>
        LET u == reply.req[2]
            S == EntriesOf(reply.req[3])
            r == reply.resp
        IN (Owns(u, reply.req[3]) /\ Cardinality(S) >= 2
                /\ MaxOf(OdometersOf(S)) > MinOf(OdometersOf(S)))
           => /\ r.status = 200
              /\ r.distance = MaxOf(OdometersOf(S)) - MinOf(OdometersOf(S))
              /\ r.liters = LitersOf(S)
              /\ IsPerHundredKm(r.avg_consumption, LitersOf(S), r.distance)

\* answered for entries whose date order is not their odometer order, with
\* an average that had to be rounded
C14_Witness ==
    /\ Asked("get_consumption")
    /\ reply.resp.status = 200
    /\ (reply.resp.liters * ((100 * 100) \div LitersScale)) % reply.resp.distance # 0
    /\ \E a, b \in EntriesOf(reply.req[3]) :
          DateLt(a.date, b.date) /\ a.odometer > b.odometer

\* C15: for a vehicle of the caller with fewer than 2 entries, or whose
\* largest odometer is not above the smallest, get_consumption answers 400
\* and no figures.
C15_InsufficientData ==
    Asked("get_consumption") =>
        LET u == reply.req[2]
            S == EntriesOf(reply.req[3])
            r == reply.resp
        IN (Owns(u, reply.req[3])
                /\ (Cardinality(S) < 2 \/ MaxOf(OdometersOf(S)) <= MinOf(OdometersOf(S))))
           => /\ r.status = 400
              /\ DOMAIN r \cap {"distance", "liters", "avg_consumption"} = {}

\* refused for 2 or more entries that all share one odometer value
C15_Witness ==
    /\ Asked("get_consumption")
    /\ reply.resp.status = 400
    /\ Cardinality(EntriesOf(reply.req[3])) >= 2
    /\ Cardinality(OdometersOf(EntriesOf(reply.req[3]))) = 1

\* the request the last reply answers, and the entries of its vehicle dated
\* in its month
ReqUser == reply.req[2]
ReqVehicle == reply.req[3]
ReqYear == reply.req[4]
ReqMonth == reply.req[5]
InMonth == {r \in EntriesOf(ReqVehicle) : r.date[1] = ReqYear /\ r.date[2] = ReqMonth}
Reported == Asked("monthly_report") /\ Owns(ReqUser, ReqVehicle) /\ ReqMonth \in 1..12

\* C16: a monthly report of the caller's vehicle lists exactly the vehicle's
\* entries dated from the first instant of the month up to, not including,
\* the first instant of the next month (1 January of the next year for
\* December), that is the entries dated in that calendar month; a month
\* outside 1..12 is answered 400.
C16_MonthWindow ==
    /\ NextMonth(2024, 12) = <<2025, 1, 1, 0>>
    /\ (Asked("monthly_report") /\ Owns(ReqUser, ReqVehicle)) =>
        /\ ReqMonth \notin 1..12 => reply.resp.status = 400
        /\ ReqMonth \in 1..12 =>
            /\ reply.resp.status = 200
            /\ Range(reply.resp.entries) = InMonth
            /\ Len(reply.resp.entries) = Cardinality(InMonth)
            /\ \A r \in EntriesOf(ReqVehicle) :
                  r \in InMonth <=> /\ DateLe(MonthStart(ReqYear, ReqMonth), r.date)
                                    /\ DateLt(r.date, NextMonth(ReqYear, ReqMonth))

\* December, with one entry dated exactly 1 December 00:00, listed, and one
\* dated exactly 1 January 00:00 of the next year, left out
C16_Witness ==
    /\ Reported /\ ReqMonth = 12
    /\ \E r \in Range(reply.resp.entries) : r.date = <<ReqYear, 12, 1, 0>>
    /\ \E r \in EntriesOf(ReqVehicle) :
          r.date = <<ReqYear + 1, 1, 1, 0>> /\ r \notin Range(reply.resp.entries)

\* C17: when no entry of the vehicle is dated in the month the report is a
\* 200 with total_cost 0, total_liters 0, distance 0 and avg_consumption
\* null.
C17_EmptyMonth ==
    (Reported /\ InMonth = {}) =>
        /\ reply.resp.status = 200
        /\ reply.resp.total_cost = 0
        /\ reply.resp.total_liters = 0
        /\ reply.resp.distance = 0
        /\ reply.resp.avg_consumption = None

\* an empty month of a vehicle that has entries in other months
C17_Witness ==
    /\ Reported /\ InMonth = {} /\ EntriesOf(ReqVehicle) # {}
    /\ reply.resp.status = 200

\* C18: the distance of a monthly report is the largest minus the smallest
\* odometer of the entries in the month, in whatever order they are dated,
\* and 0 when the month has fewer than 2 entries; it is never negative.
C18_MonthDistance ==
    (Reported /\ reply.resp.status = 200) =>
        /\ reply.resp.distance >= 0
        /\ Cardinality(InMonth) < 2 => reply.resp.distance = 0
        /\ Cardinality(InMonth) >= 2 =>
              reply.resp.distance = MaxOf(OdometersOf(InMonth)) - MinOf(OdometersOf(InMonth))

\* a month whose later entry has the lower odometer
C18_Witness ==
    /\ Reported /\ reply.resp.status = 200 /\ reply.resp.distance > 0
    /\ \E a, b \in InMonth : DateLt(a.date, b.date) /\ a.odometer > b.odometer

\* C19: in a monthly report avg_consumption is null exactly when the distance
\* is 0, and otherwise is the month's liters / distance * 100 rounded to 2
\* decimals; a zero distance never makes the report fail.
C19_MonthAverage ==
    Reported =>
        /\ reply.resp.status = 200
        /\ reply.resp.avg_consumption = None <=> reply.resp.distance = 0
        /\ reply.resp.distance > 0 =>
              /\ Len(reply.resp.avg_consumption) = 1
              /\ IsPerHundredKm(reply.resp.avg_consumption[1], LitersOf(InMonth),
                                reply.resp.distance)

\* a month with 2 or more entries, all at one odometer: no average
C19_Witness ==
    /\ Reported /\ Cardinality(InMonth) >= 2
    /\ reply.resp.distance = 0 /\ reply.resp.avg_consumption = None

\* the days with an entry in the month, and the entries of a day
DaysInMonth == {DayOf(r.date) : r \in InMonth}
OnDay(day) == {r \in InMonth : DayOf(r.date) = day}
RowLiters == [i \in 1..Len(reply.resp.daily) |-> reply.resp.daily[i].liters]
RowCosts == [i \in 1..Len(reply.resp.daily) |-> reply.resp.daily[i].cost]

CsvReported ==
    Asked("monthly_report_csv") /\ Owns(ReqUser, ReqVehicle) /\ ReqMonth \in 1..12

\* the tuple of a report entry, its date as the text the report gives and a
\* null notes as the empty field the CSV has for it
TupleOf(r) ==
    <<r.id, <<r.date>>, r.odometer, r.liters, r.price_per_liter, r.total_cost,
      IF r.notes.null THEN "" ELSE r.notes.text>>

\* the date the second field of a CSV row spells, the minimum date when it
\* spells none
RowDate(row) ==
    IF row[2] # <<>> /\ IsDate(row[2][1]) THEN row[2][1] ELSE datetime_min

\* entries as the export sorts them, one with a text that is no date and one
\* with no date among them
UnparsableSample ==
    <<[id |-> 1, date |-> <<<<2024, 12, 31, 1>>>>], [id |-> 2, date |-> <<<<2024, 0, 1, 0>>>>],
      [id |-> 3, date |-> <<>>], [id |-> 4, date |-> <<<<2024, 12, 1, 0>>>>]>>
UnparsableSorted == sorted_by_date(UnparsableSample)

Landed(vid) ==
    {j \in JobIds : /\ jobs[j].func = "create" /\ jobs[j].vid = vid
                    /\ jobs[j].resp = "queued" /\ jobs[j].st = "finished"
                    /\ jobs[j].out # "failed"}
InitialRows == {NewRow(1, 1, 1)}

\* C27, as claimed: once the job of a create request that was answered
\* 'queued' has ended without its commit failing, the vehicle's list holds
\* one entry made by it (the store never deletes here, so it stays).
C27_EventuallyVisible ==
    \A u \in Users, vid \in VehicleIds :
        Owns(u, vid) =>
            /\ \A j \in Landed(vid) : jobs[j].ins = 1
            /\ Cardinality(list_fuel_entries(u, vid).entries \ InitialRows)
                    >= Cardinality(Landed(vid))

\* the create jobs the ownership re-validation has dropped
Dropped == {j \in JobIds : jobs[j].func = "create" /\ jobs[j].out = "dropped"}
\* neither the submitting request nor the worker is still busy with the job
Settled(j) ==
    /\ \A t \in Threads : rq[t].job # j
    /\ \A k \in Workers : wk[k].job # j

\* C29, as claimed: a create job dropped by the re-validation has inserted
\* nothing and logged no error, is out of the pending list once its callback
\* has run, and its caller has already been told 'queued' when it is dropped.
C29_NoTrace ==
    \A j \in Dropped :
        /\ jobs[j].ins = 0
        /\ j \notin Range(errHist)
        /\ jobs[j].cb = "ran" => j \notin Range(pending)
        /\ jobs[j].resp = "queued"

\* C29, amended: a create job dropped by the re-validation has inserted
\* nothing and logged no error; once the request and the worker are done with
\* it, it is out of the pending list; and its caller is told 'queued' and
\* nothing else, before or after the job is dropped.
C29_NoTraceAnswered ==
    \A j \in Dropped :
        /\ jobs[j].ins = 0
        /\ j \notin Range(errHist)
        /\ jobs[j].cb = "ran" => j \notin Range(pending)
        /\ jobs[j].resp \in {"none", "queued"}
        /\ Settled(j) =>
              /\ jobs[j].st = "finished" /\ jobs[j].cb = "ran"
              /\ j \notin Range(pending)
              /\ jobs[j].resp = "queued"

\* a job accepted while the vehicle was the caller's and dropped after the
\* vehicle had gone, the caller answered only afterwards
C29_Witness ==
    \E j \in Dropped :
        /\ Settled(j) /\ errors = <<>> /\ pending = <<>>
        /\ fuel = InitialRows

\* the request SpecApi is about, and what a step wrote
ApiOp == IF reply.req = <<>> THEN "none" ELSE reply.req[1]
ApiUser == reply.req[2]
ApiId == reply.req[3]
ApiBody == reply.req[4]
FuelWriteOps == {"create_fuel_entry", "update_fuel_entry", "upload_fuel_with_receipt"}
FuelWritten == fuel' \ fuel
EventsWritten == service' \ service

\* cost, in units of 1 / CostScale, has two decimals and is within half a
\* hundredth of liters * price: the product, in hundredths, is
\* whole + part / 100000, taken by splitting the price
IsRoundedProduct(cost, liters, price) ==
    LET hi == liters * (price \div 100)
        lo == liters * (price % 100)
        whole == hi \div 1000 + lo \div 100000
        part == 100 * (hi % 1000) + (lo % 100000)
        hundredths == cost \div (CostScale \div 100)
    IN /\ cost % (CostScale \div 100) = 0
       /\ Abs((hundredths - whole) * 100000 - part) <= 50000

\* C23: whenever a fuel entry is created (through the queue or by upload) or
\* updated by a request that supplies no total_cost, the row written holds
\* the request's liters and price_per_liter and total_cost =
\* round(liters * price_per_liter, 2); 40.0 l at 6.259 gives 250.36.
C23_DefaultTotalCost ==
    [][ LET ans == reply' IN
        (/\ ans.req # <<>>
         /\ ans.req[1] \in FuelWriteOps
         /\ ans.resp.status \in {200, 201, 202}
         /\ ans.req[4].total_cost = None)
        => /\ (reply' # reply /\ ans.resp.status # 202) \/ Len(workq') < Len(workq)
                => FuelWritten # {}
           /\ \A r \in FuelWritten :
                /\ r.liters = ans.req[4].liters
                /\ r.price_per_liter = ans.req[4].price_per_liter
                /\ IsRoundedProduct(r.total_cost, r.liters, r.price_per_liter)
                /\ (r.liters = 40 * LitersScale /\ r.price_per_liter = 6259)
                        => r.total_cost = 250360 ]_vars

\* an entry created through the queue without a total_cost: 10.5 l at 6.259,
\* 65.7195, stored as 65.72
C23_Witness ==
    /\ ApiOp = "create_fuel_entry" /\ ApiBody.total_cost = None
    /\ workq = <<>> /\ pending = <<>>
    /\ \E r \in fuel : r.id \notin {1, 2, 4} /\ r.liters = 105000 /\ r.total_cost = 65720

ValidationErrors == {400, 422}

\* C24: a request answered with a validation error (malformed number,
\* malformed date, missing required field) leaves both tables, the write
\* queue, the futures and the pending list as they were.
C24_ValidationFirst ==
    [][ (reply' # reply /\ reply'.resp.status \in ValidationErrors)
            => UNCHANGED <<fuel, service, workq, jobs, pending>> ]_vars

\* the owner's update of an entry of theirs, refused for its date
C24_Witness ==
    /\ ApiOp = "update_fuel_entry"
    /\ reply.resp.status \in ValidationErrors
    /\ ApiBody.shape = "ok" /\ ApiBody.date # None /\ ~Parses(ApiBody.date)
    /\ HasRow(ApiId) /\ Owns(ApiUser, Row(ApiId).vehicle_id)
    /\ service # {}

CreationOps == {"create_fuel_entry", "upload_fuel_with_receipt", "create_service_event",
                "upsert_service_event"}

\* C25: every creation endpoint answers a date text that does not parse, sent
\* by the vehicle's owner in an otherwise well-formed request, with a
\* validation error, and stores and queues nothing.
C25_UnparsableDateRejected ==
    [][ LET ans == reply' IN
        (/\ reply' # reply
         /\ ans.req[1] \in CreationOps
         /\ ans.req[4].shape = "ok"
         /\ ans.req[4].date # None /\ ~Parses(ans.req[4].date)
         /\ Owns(ans.req[2], ans.req[4].vehicle_id))
        => /\ ans.resp.status \in ValidationErrors
           /\ UNCHANGED <<fuel, service, workq, jobs, pending>> ]_vars

\* C28: update_service_event addressed to an id that names no event never
\* answers 404.  With a body that passes validation: if the body's vehicle is
\* the caller's, exactly one event is inserted, under an id the store
\* assigns, with the body's vehicle and values, and the answer is 201 with
\* that id; otherwise the answer is 403 and the store is unchanged.
C28_MissingIdCreates ==
    [][ LET ans == reply'
            body == ans.req[4]
        IN
        (reply' # reply /\ ans.req[1] = "update_service_event" /\ ~HasEvent(ans.req[3]))
        => /\ ans.resp.status # 404
           /\ fuel' = fuel
           /\ (Validates(body) /\ Owns(ans.req[2], body.vehicle_id))
                => /\ ans.resp.status = 201
                   /\ Cardinality(EventsWritten) = 1
                   /\ service \subseteq service'
                   /\ \A e \in EventsWritten :
                        /\ e.id = ans.resp.id
                        /\ e.id \notin {x.id : x \in service}
                        /\ e.vehicle_id = body.vehicle_id
                        /\ e.type = body.type /\ e.cost = body.cost
                        /\ e.description = body.description
           /\ (Validates(body) /\ ~Owns(ans.req[2], body.vehicle_id))
                => ans.resp.status = 403 /\ service' = service ]_vars

\* a PUT to id 4, which names nothing, stored as a third event under id 3
C28_Witness ==
    /\ ApiOp = "update_service_event" /\ reply.resp.status = 201
    /\ ApiId = 4 /\ reply.resp.id = 3
    /\ ~HasEvent(4) /\ HasEvent(3) /\ Event(3).vehicle_id = ApiBody.vehicle_id
    /\ Cardinality(service) = 3

\* C30: update_fuel_entry leaves every other record, the other table and the
\* queue alone, and of the addressed entry it leaves id, vehicle_id and
\* receipt_photo as they were, whatever vehicle the body names, and notes too
\* when the body's notes is null; when it answers 200 the entry holds the
\* body's odometer, liters and price_per_liter, and its notes if not null.
C30_UpdateFields ==
    [][ LET ans == reply'
            fid == ans.req[3]
            body == ans.req[4]
        IN
        (reply' # reply /\ ans.req[1] = "update_fuel_entry")
        => /\ UNCHANGED <<service, workq, jobs, pending>>
           /\ {r \in fuel : r.id # fid} = {r \in fuel' : r.id # fid}
           /\ \A old \in fuel : old.id = fid =>
                \E new \in fuel' :
                    /\ new.id = fid
                    /\ new.vehicle_id = old.vehicle_id
                    /\ new.receipt_photo = old.receipt_photo
                    /\ body.notes.null => new.notes = old.notes
                    /\ ans.resp.status # 200 => new = old
                    /\ ans.resp.status = 200 =>
                        /\ new.odometer = body.odometer
                        /\ new.liters = body.liters
                        /\ new.price_per_liter = body.price_per_liter
                        /\ ~body.notes.null => new.notes = body.notes
           /\ Cardinality(fuel') = Cardinality(fuel) ]_vars

\* the owner's update of entry 2 with a body naming vehicle 2 and no notes:
\* the entry is still vehicle 1's, with its notes and its receipt
C30_Witness ==
    /\ ApiOp = "update_fuel_entry" /\ reply.resp.status = 200 /\ ApiId = 2
    /\ ApiBody.vehicle_id = 2 /\ ApiBody.notes.null
    /\ \E r \in fuel :
        /\ r.id = 2 /\ r.vehicle_id = 1 /\ r.odometer = ApiBody.odometer
        /\ r.notes = Str("full tank") /\ ~r.receipt_photo.null
    /\ Cardinality(fuel) = 2

\* C26: a delete_fuel_entry or delete_service_event answered 204 removes the
\* addressed record and nothing else; in the store it leaves, the caller's
\* list and monthly report (or get and list) do not hold the record, and a
\* second delete of the same id is answered 404.
C26_HardDelete ==
    [][ \A u \in Users, id \in ApiIds :
        /\ (reply' # reply /\ reply'.req = <<"delete_fuel_entry", u, id, None>>
                /\ reply'.resp.status = 204)
            => /\ \E old \in fuel : old.id = id /\ fuel' = fuel \ {old}
               /\ service' = service
               /\ delete_fuel_status(u, id)' = 404
               /\ \A vid \in VehicleIds :
                    /\ list_fuel_entries(u, vid)'.status = 200
                        => \A r \in list_fuel_entries(u, vid)'.entries : r.id # id
                    /\ monthly_report(u, vid, 2024, 12)'.status = 200
                        => \A i \in DOMAIN monthly_report(u, vid, 2024, 12)'.entries :
                                monthly_report(u, vid, 2024, 12)'.entries[i].id # id
        /\ (reply' # reply /\ reply'.req = <<"delete_service_event", u, id, None>>
                /\ reply'.resp.status = 204)
            => /\ \E old \in service : old.id = id /\ service' = service \ {old}
               /\ fuel' = fuel
               /\ delete_service_status(u, id)' = 404
               /\ get_service_event(u, id)'.status = 404
               /\ \A vid \in VehicleIds :
                    list_service_events(u, vid)'.status = 200
                        => \A e \in list_service_events(u, vid)'.events : e.id # id ]_vars

\* entry 1 deleted by its owner, entry 2 of the same vehicle still listed
C26_Witness ==
    /\ ApiOp = "delete_fuel_entry" /\ reply.resp.status = 204 /\ ApiId = 1
    /\ delete_fuel_status(ApiUser, 1) = 404
    /\ {r.id : r \in list_fuel_entries(ApiUser, 1).entries} = {2}
    /\ service # {}

====
